---- MODULE Spec2Model ----
(***************************************************************************)
(* Multi-user todo list: browser -> Session Bridge (Next.js proxy route)   *)
(* -> Express backend (authenticateToken, todosRouter) -> "todos" table.   *)
(* One request travels the chain at a time; the table persists between     *)
(* requests.  Handlers share no state but the table, which each backend    *)
(* route touches in one database call.                                     *)
(***************************************************************************)
EXTENDS Integers, Sequences, FiniteSets, TLC

\* ------------------------------------------------------------------ bounds
\* number of rows the table ever receives (ids "1" .. ToString(MaxRows))
MaxRows == 2

\* ------------------------------------------------------------- value sets
Subjects == {"A", "B"}

\* A bearer credential: a signed token.  kind says what jwt.verify makes of
\* it, sub is the subject claim it carries.
NoToken == [kind |-> "none", sub |-> "none"]
Tokens ==
  {[kind |-> "good", sub |-> s] : s \in Subjects}
    \cup {[kind |-> "badsig", sub |-> "A"],
          [kind |-> "expired", sub |-> "B"],
          [kind |-> "malformed", sub |-> "none"]}

\* the word "Bearer" of an Authorization header, as one space-separated piece
BearerWord == [kind |-> "word", sub |-> "Bearer"]

NoUser == [sub |-> "none"]

\* request bodies (parsed JSON objects); hasTask = FALSE is an absent field
EmptyObject == [hasTask |-> FALSE, task |-> "", user_id |-> "", is_completed |-> FALSE]
Bodies ==
  {EmptyObject,
   [hasTask |-> TRUE, task |-> "", user_id |-> "", is_completed |-> FALSE],
   [hasTask |-> TRUE, task |-> "buy milk", user_id |-> "", is_completed |-> FALSE],
   [hasTask |-> TRUE, task |-> "buy milk", user_id |-> "B", is_completed |-> TRUE]}

\* a body on the wire: absent, or the JSON text of a parsed object
NoBody == [present |-> FALSE, json |-> EmptyObject]

RowIds == {ToString(n) : n \in 1..MaxRows}
\* ids a caller may name in DELETE /:id; "x" never exists
PathIds == RowIds \cup {"x"}

\* ------------------------------------------------------- response bodies
\* shape: "array" (JSON list of rows), "object" (one JSON row), "error"
\* ({error: msg}), "wrapped" ({error: msg, details: text}), "text" (plain
\* text msg), "empty".
EmptyBody == [shape |-> "empty", rows |-> <<>>, msg |-> "", details |-> <<>>]
TextBody(m) == [shape |-> "text", rows |-> <<>>, msg |-> m, details |-> <<>>]
ErrorBody(m) == [shape |-> "error", rows |-> <<>>, msg |-> m, details |-> <<>>]
ArrayBody(rs) == [shape |-> "array", rows |-> rs, msg |-> "", details |-> <<>>]
ObjectBody(r) == [shape |-> "object", rows |-> <<r>>, msg |-> "", details |-> <<>>]
WrappedBody(m, text) == [shape |-> "wrapped", rows |-> <<>>, msg |-> m, details |-> <<text>>]

NoResponse == [status |-> 0, body |-> EmptyBody]

StatusText(s) ==
  CASE s = 400 -> "Bad Request"
    [] s = 401 -> "Unauthorized"
    [] s = 403 -> "Forbidden"
    [] s = 404 -> "Not Found"
    [] s = 500 -> "Internal Server Error"
    [] OTHER -> "OK"

\* ------------------------------------------------------------ the database
\* Rows of the "todos" table, as the supabase query builder sees them.
RECURSIVE OrderDesc(_)
OrderDesc(rows) ==
  IF rows = {} THEN <<>>
  ELSE LET r == CHOOSE x \in rows : \A y \in rows : y.created_at <= x.created_at
       IN <<r>> \o OrderDesc(rows \ {r})

RECURSIVE OrderAsc(_)
OrderAsc(rows) ==
  IF rows = {} THEN <<>>
  ELSE LET r == CHOOSE x \in rows : \A y \in rows : x.created_at <= y.created_at
       IN <<r>> \o OrderAsc(rows \ {r})

\* the select ordered oldest first
SelectTodosAscending(table, userId) ==
  OrderAsc({row \in table : row.user_id = userId})

\* the select without its eq("user_id", userId) filter
SelectTodosUnfiltered(table, userId) ==
  OrderDesc(table)

\* .from("todos").select("*").eq("user_id", userId).order("created_at", desc)
SelectTodos(table, userId) ==
  OrderDesc({row \in table : row.user_id = userId})

\* .from("todos").insert([{task, is_completed: false, user_id}]).select()
\* the database supplies id and created_at
InsertedRow(n, task, userId) ==
  [id |-> ToString(n), task |-> task, is_completed |-> FALSE,
   created_at |-> n, user_id |-> userId]

\* the delete without its eq("user_id", userId) filter
DeleteTodosById(table, id, userId) ==
  {row \in table : row.id # id}

\* .from("todos").delete().eq("id", id).eq("user_id", userId)
DeleteTodos(table, id, userId) ==
  {row \in table : ~(row.id = id /\ row.user_id = userId)}

\* ------------------------------------------------------------ the backend
\* A request as the Express app receives it.  authorization is the header
\* value split at spaces (<<>> when the header is absent); cookie is the
\* value of the auth cookie (NoToken when absent).
NoBackendRequest ==
  [method |-> "GET", path |-> <<>>, cookie |-> NoToken, authorization |-> <<>>,
   ctype |-> FALSE, body |-> NoBody]

\* jwt.verify(token, secret, cb): err unless the token is well-formed,
\* signed with the secret and not expired; user is the decoded claim set
jwt_verify(token) ==
  IF token.kind = "good"
  THEN [err |-> FALSE, user |-> [sub |-> token.sub]]
  ELSE [err |-> TRUE, user |-> NoUser]

\* a verifier that lets the request through whatever jwt.verify reports
authenticateTokenLax(req) ==
  LET token == req.cookie IN
  IF token = NoToken
  THEN [next |-> FALSE, status |-> 401, user |-> NoUser, verified |-> 0]
  ELSE [next |-> TRUE, status |-> 0, user |-> [sub |-> token.sub], verified |-> 1]

\* the verifier of src/backend/server.js: the credential is the auth cookie
authenticateToken(req) ==
  LET token == req.cookie IN
  IF token = NoToken
  THEN [next |-> FALSE, status |-> 401, user |-> NoUser, verified |-> 0]
  ELSE LET v == jwt_verify(token) IN
       IF v.err
       THEN [next |-> FALSE, status |-> 403, user |-> NoUser, verified |-> 1]
       ELSE [next |-> TRUE, status |-> 0, user |-> v.user, verified |-> 1]

\* the verifier of the header-checking backend: authHeader.split(" ")[1]
authenticateTokenHeader(req) ==
  LET authHeader == req.authorization
      token == IF Len(authHeader) >= 2 THEN authHeader[2] ELSE NoToken
  IN IF token = NoToken
     THEN [next |-> FALSE, status |-> 401, user |-> NoUser, verified |-> 0]
     ELSE LET v == jwt_verify(token) IN
          IF v.err
          THEN [next |-> FALSE, status |-> 403, user |-> NoUser, verified |-> 1]
          ELSE [next |-> TRUE, status |-> 0, user |-> v.user, verified |-> 1]

\* express.json(): the body is parsed only under a JSON content type
express_json(req) ==
  IF req.ctype /\ req.body.present THEN req.body.json ELSE EmptyObject

\* todosRouter.get("/")
todosGet(userId, table, dbError) ==
  IF dbError
  THEN [res |-> [status |-> 500, body |-> ErrorBody("Failed to fetch todos")],
        table |-> table, inserted |-> 0, dbCalls |-> 1]
  ELSE [res |-> [status |-> 200, body |-> ArrayBody(SelectTodos(table, userId))],
        table |-> table, inserted |-> 0, dbCalls |-> 1]

\* a create route that inserts the body's own user_id and is_completed
todosPostSpreadingBody(userId, body, table, n, dbError) ==
  IF ~body.hasTask \/ body.task = ""
  THEN [res |-> [status |-> 400, body |-> ErrorBody("Task cannot be empty")],
        table |-> table, inserted |-> 0, dbCalls |-> 0]
  ELSE IF dbError
  THEN [res |-> [status |-> 500, body |-> ErrorBody("Failed to add todo")],
        table |-> table, inserted |-> 0, dbCalls |-> 1]
  ELSE LET row == [InsertedRow(n, body.task, userId) EXCEPT
                     !.user_id = IF body.user_id = "" THEN userId ELSE body.user_id,
                     !.is_completed = body.is_completed]
       IN [res |-> [status |-> 201, body |-> ObjectBody(row)],
           table |-> table \cup {row}, inserted |-> 1, dbCalls |-> 1]

\* a create route without the test of the task
todosPostUnchecked(userId, body, table, n, dbError) ==
  IF dbError
  THEN [res |-> [status |-> 500, body |-> ErrorBody("Failed to add todo")],
        table |-> table, inserted |-> 0, dbCalls |-> 1]
  ELSE LET row == InsertedRow(n, body.task, userId) IN
       [res |-> [status |-> 201, body |-> ObjectBody(row)],
        table |-> table \cup {row}, inserted |-> 1, dbCalls |-> 1]

\* todosRouter.post("/"); n is the id the database gives the next row
todosPost(userId, body, table, n, dbError) ==
  IF ~body.hasTask \/ body.task = ""
  THEN [res |-> [status |-> 400, body |-> ErrorBody("Task cannot be empty")],
        table |-> table, inserted |-> 0, dbCalls |-> 0]
  ELSE IF dbError
  THEN [res |-> [status |-> 500, body |-> ErrorBody("Failed to add todo")],
        table |-> table, inserted |-> 0, dbCalls |-> 1]
  ELSE LET row == InsertedRow(n, body.task, userId) IN
       [res |-> [status |-> 201, body |-> ObjectBody(row)],
        table |-> table \cup {row}, inserted |-> 1, dbCalls |-> 1]

\* a delete route that reports 404 when it matched no row of the caller
todosDeleteReporting(userId, id, table, dbError) ==
  IF dbError
  THEN [res |-> [status |-> 500, body |-> ErrorBody("Failed to delete todo")],
        table |-> table, inserted |-> 0, dbCalls |-> 1]
  ELSE IF DeleteTodos(table, id, userId) = table
  THEN [res |-> [status |-> 404, body |-> ErrorBody("Not found")],
        table |-> table, inserted |-> 0, dbCalls |-> 1]
  ELSE [res |-> [status |-> 204, body |-> EmptyBody],
        table |-> DeleteTodos(table, id, userId), inserted |-> 0, dbCalls |-> 1]

\* a delete route that answers 204 without looking at the database's error
todosDeleteIgnoringError(userId, id, table, dbError) ==
  [res |-> [status |-> 204, body |-> EmptyBody],
   table |-> IF dbError THEN table ELSE DeleteTodos(table, id, userId),
   inserted |-> 0, dbCalls |-> 1]

\* todosRouter.delete("/:id")
todosDelete(userId, id, table, dbError) ==
  IF dbError
  THEN [res |-> [status |-> 500, body |-> ErrorBody("Failed to delete todo")],
        table |-> table, inserted |-> 0, dbCalls |-> 1]
  ELSE [res |-> [status |-> 204, body |-> EmptyBody],
        table |-> DeleteTodos(table, id, userId), inserted |-> 0, dbCalls |-> 1]

\* which route of todosRouter a request under /api/todos matches
\* (Express answers HEAD with the GET route)
Route(req) ==
  CASE Len(req.path) = 2 /\ req.method \in {"GET", "HEAD"} -> "get"
    [] Len(req.path) = 2 /\ req.method = "POST" -> "post"
    [] Len(req.path) = 3 /\ req.method = "DELETE" -> "delete"
    [] OTHER -> "none"

UnderTodos(req) ==
  Len(req.path) >= 2 /\ req.path[1] = "api" /\ req.path[2] = "todos"

NotFound ==
  [res |-> [status |-> 404, body |-> TextBody("Not Found")],
   inserted |-> 0, dbCalls |-> 0]

\* app.use("/api/todos", authenticateToken, todosRouter): the whole handling
\* of one request by the backend.  variant names the verifier deployed.
Backend(variant, req, table, n, dbError) ==
  IF ~UnderTodos(req)
  THEN [res |-> NotFound.res, table |-> table, inserted |-> 0, dbCalls |-> 0,
        user |-> NoUser, handler |-> "none", verified |-> 0]
  ELSE
    LET auth == IF variant = "cookie" THEN authenticateToken(req)
                ELSE authenticateTokenHeader(req)
    IN
    IF ~auth.next
    THEN [res |-> [status |-> auth.status, body |-> TextBody(StatusText(auth.status))],
          table |-> table, inserted |-> 0, dbCalls |-> 0,
          user |-> NoUser, handler |-> "none", verified |-> auth.verified]
    ELSE
      LET route == Route(req)
          userId == auth.user.sub
          out == CASE route = "get" -> todosGet(userId, table, dbError)
                   [] route = "post" -> todosPost(userId, express_json(req), table, n, dbError)
                   [] route = "delete" -> todosDelete(userId, req.path[3], table, dbError)
                   [] OTHER -> [res |-> NotFound.res, table |-> table,
                                inserted |-> 0, dbCalls |-> 0]
          \* a HEAD response carries the status and headers of GET but no body
          res == IF req.method = "HEAD"
                 THEN [status |-> out.res.status, body |-> EmptyBody]
                 ELSE out.res
      IN [res |-> res, table |-> out.table, inserted |-> out.inserted,
          dbCalls |-> out.dbCalls, user |-> auth.user, handler |-> route,
          verified |-> auth.verified]

\* ------------------------------------------------- the Session Bridge (proxy)
\* A session as supabase.auth.getSession() resolves it from the cookies
NoSession == [access_token |-> NoToken]
Sessions == {[access_token |-> t] : t \in Tokens}

\* process.env.NEXT_PUBLIC_API_URL: unset, the backend's origin, or the
\* origin followed by /api (path holds the segments after the origin)
ApiUrls ==
  {[set |-> FALSE, path |-> <<>>],
   [set |-> TRUE, path |-> <<>>],
   [set |-> TRUE, path |-> <<"api">>]}

\* A request as the proxy route receives it: slug is req.query.slug, body
\* the parsed req.body, cookieSession what the request's cookies hold.
NoInbound ==
  [method |-> "GET", slug |-> <<>>, ctype |-> FALSE, body |-> EmptyObject,
   cookieSession |-> NoSession]

ProxyInbounds ==
  {[method |-> m, slug |-> <<"todos">>, ctype |-> FALSE, body |-> EmptyObject,
    cookieSession |-> c] : m \in {"GET", "HEAD"}, c \in Sessions \cup {NoSession}}
  \cup
  {[method |-> "POST", slug |-> <<"todos">>, ctype |-> ct, body |-> b,
    cookieSession |-> c] : ct \in BOOLEAN, b \in Bodies, c \in Sessions \cup {NoSession}}
  \cup
  {[method |-> "DELETE", slug |-> <<"todos", id>>, ctype |-> FALSE, body |-> EmptyObject,
    cookieSession |-> c] : id \in PathIds, c \in Sessions \cup {NoSession}}

\* the outcomes of supabase.auth.getSession(): the session of the cookies,
\* or an error with no session
NoSessionResult == [called |-> FALSE, error |-> FALSE, session |-> NoSession]
getSession(inbound) ==
  {[called |-> TRUE, error |-> FALSE, session |-> inbound.cookieSession],
   [called |-> TRUE, error |-> TRUE, session |-> NoSession]}

\* JSON.stringify(req.body)
JSONstringify(body) == [present |-> TRUE, json |-> body]

\* a fetch that forwards the cookie's token as it is and adds no bearer header
ProxyFetchRequestNoBearer(url, inbound, session) ==
  [method |-> inbound.method,
   path |-> url.path \o inbound.slug,
   cookie |-> session.access_token,
   authorization |-> <<>>,
   ctype |-> inbound.ctype,
   body |-> IF inbound.method # "GET" /\ inbound.method # "HEAD"
            THEN JSONstringify(inbound.body)
            ELSE NoBody]

\* a fetch that sends the serialized body with every method
ProxyFetchRequestAlwaysBody(url, inbound, session) ==
  [method |-> inbound.method,
   path |-> url.path \o inbound.slug,
   cookie |-> NoToken,
   authorization |-> <<BearerWord, session.access_token>>,
   ctype |-> inbound.ctype,
   body |-> JSONstringify(inbound.body)]

\* the fetch(targetUrl, {method, headers, body}) the proxy issues
ProxyFetchRequest(url, inbound, session) ==
  [method |-> inbound.method,
   path |-> url.path \o inbound.slug,
   cookie |-> NoToken,
   authorization |-> <<BearerWord, session.access_token>>,
   ctype |-> inbound.ctype,
   body |-> IF inbound.method # "GET" /\ inbound.method # "HEAD"
            THEN JSONstringify(inbound.body)
            ELSE NoBody]

\* response.ok
ResponseOk(response) == response.status >= 200 /\ response.status <= 299

\* response.json(): the parsed body, or a throw when the text is not JSON
ResponseJson(response) ==
  IF response.body.shape \in {"array", "object", "error", "wrapped"}
  THEN [throws |-> FALSE, data |-> response.body]
  ELSE [throws |-> TRUE, data |-> EmptyBody]

\* which reader the proxy applies to the backend's body: response.text() on
\* a non-OK answer, none on 204, response.json() otherwise
ProxyBodyRead(response) ==
  IF ~ResponseOk(response) THEN "text"
  ELSE IF response.status = 204 THEN "none"
  ELSE "json"

\* a proxy without the 204 branch: it parses the empty body
ProxyPassThroughParsing204(response) ==
  IF ~ResponseOk(response)
  THEN [status |-> response.status,
        body |-> WrappedBody(StatusText(response.status), response.body)]
  ELSE LET parsed == ResponseJson(response) IN
       IF parsed.throws
       THEN [status |-> 500, body |-> ErrorBody("Proxy request failed")]
       ELSE [status |-> response.status, body |-> parsed.data]

\* a proxy that answers every backend error with status 500
ProxyPassThroughFlatStatus(response) ==
  IF ~ResponseOk(response)
  THEN [status |-> 500,
        body |-> WrappedBody(StatusText(response.status), response.body)]
  ELSE IF response.status = 204
  THEN [status |-> 204, body |-> EmptyBody]
  ELSE LET parsed == ResponseJson(response) IN
       IF parsed.throws
       THEN [status |-> 500, body |-> ErrorBody("Proxy request failed")]
       ELSE [status |-> response.status, body |-> parsed.data]

\* what the proxy answers the browser once the backend has answered
ProxyPassThrough(response) ==
  IF ~ResponseOk(response)
  THEN [status |-> response.status,
        body |-> WrappedBody(StatusText(response.status), response.body)]
  ELSE IF response.status = 204
  THEN [status |-> 204, body |-> EmptyBody]
  ELSE LET parsed == ResponseJson(response) IN
       IF parsed.throws
       THEN [status |-> 500, body |-> ErrorBody("Proxy request failed")]
       ELSE [status |-> response.status, body |-> parsed.data]

\* ------------------------------------------- requests that skip the proxy
\* credentials a direct caller of the backend may present
Credentials ==
  {[cookie |-> t, authorization |-> <<>>] : t \in Tokens \cup {NoToken}}
  \cup {[cookie |-> NoToken, authorization |-> <<BearerWord>>]}
  \cup {[cookie |-> NoToken, authorization |-> <<BearerWord, t>>] : t \in Tokens}

DirectRequests ==
  {[method |-> m, path |-> <<"api", "todos">>, cookie |-> c.cookie,
    authorization |-> c.authorization, ctype |-> FALSE, body |-> NoBody] :
      m \in {"GET", "HEAD"}, c \in Credentials}
  \cup
  {[method |-> "POST", path |-> <<"api", "todos">>, cookie |-> c.cookie,
    authorization |-> c.authorization, ctype |-> TRUE, body |-> JSONstringify(b)] :
      b \in Bodies, c \in Credentials}
  \cup
  {[method |-> "DELETE", path |-> <<"api", "todos", id>>, cookie |-> c.cookie,
    authorization |-> c.authorization, ctype |-> FALSE, body |-> NoBody] :
      id \in PathIds, c \in Credentials}

\* ---------------------------------------------------------- auth callback
\* Strings the callback takes apart are sequences of pieces: next is the
\* 'next' query parameter, siteUrl the origin the redirects start from.
siteUrl == <<"https://app.example">>
NextParams ==
  {<<>>, <<"/", "todos">>, <<"todos">>, <<"https://", "evil.example">>,
   <<"/", "/", "evil.example">>}
NoCode == <<>>
Codes == {NoCode, <<"c0de">>}

\* CookieOptions as the identity-provider library passes them to the cookie
\* adapters; "unset" is a property the object does not hold
LibraryOptions ==
  {[path |-> "/", sameSite |-> "lax", secure |-> "unset", maxAge |-> "3600"],
   [path |-> "/auth", sameSite |-> "strict", secure |-> "false", maxAge |-> "unset"],
   [path |-> "unset", sameSite |-> "none", secure |-> "true", maxAge |-> "unset"]}

\* serialize(name, value, options) of the cookie package: the Set-Cookie
\* entry with one attribute per option that is set
serialize(name, value, options) ==
  [name |-> name, value |-> value,
   Path |-> IF options.path = "unset" THEN "" ELSE options.path,
   SameSite |-> CASE options.sameSite = "none" -> "None"
                  [] options.sameSite = "lax" -> "Lax"
                  [] options.sameSite = "strict" -> "Strict"
                  [] OTHER -> "",
   Secure |-> options.secure = "true",
   MaxAge |-> IF options.maxAge = "unset" THEN "" ELSE options.maxAge]

\* the two callback handlers of callback.ts: the first forces path, sameSite
\* and secure on every cookie it writes, the second hands the library's
\* options to serialize as they are
CallbackVariants == {"forced", "plain"}

\* cookies.set(name, value, options): header is the Set-Cookie array so far
cookiesSet(v, header, name, value, options) ==
  IF v = "forced"
  THEN Append(header,
              serialize(name, value,
                        [options EXCEPT !.path = "/", !.sameSite = "none",
                                        !.secure = "true"]))
  ELSE Append(header, serialize(name, value, options))

\* cookies.remove(name, options)
cookiesRemove(v, header, name, options) ==
  IF v = "forced"
  THEN Append(header,
              serialize(name, "",
                        [options EXCEPT !.path = "/", !.sameSite = "none",
                                        !.secure = "true", !.maxAge = "-1"]))
  ELSE Append(header, serialize(name, "", [options EXCEPT !.maxAge = "-1"]))

\* what the library does with the adapters while it exchanges the code: on
\* success it stores the session (and may drop the code verifier first), on
\* failure it writes nothing or drops the code verifier
LibraryWrites(result) ==
  IF result = "ok"
  THEN {<<[op |-> "set", name |-> "sb-auth-token", options |-> o]>> :
          o \in LibraryOptions}
       \cup {<<[op |-> "remove", name |-> "sb-code-verifier", options |-> o1],
               [op |-> "set", name |-> "sb-auth-token", options |-> o2]>> :
               o1 \in LibraryOptions, o2 \in LibraryOptions}
  ELSE {<<>>}
       \cup {<<[op |-> "remove", name |-> "sb-code-verifier", options |-> o]>> :
               o \in LibraryOptions}

RECURSIVE ApplyWrites(_, _, _)
ApplyWrites(v, header, writes) ==
  IF writes = <<>> THEN header
  ELSE LET w == Head(writes)
           h == IF w.op = "set"
                THEN cookiesSet(v, header, w.name, "session", w.options)
                ELSE cookiesRemove(v, header, w.name, w.options)
       IN ApplyWrites(v, h, Tail(writes))

\* the outcomes of supabase.auth.exchangeCodeForSession(code)
ExchangeResults == {"ok", "error", "throws"}

AuthErrorLocation(message) == siteUrl \o <<"/auth-error?message=", message>>

\* One request to the callback: deployed is the handler that takes it, pc
\* the handler's position, state the state of section 4.4 it is in,
\* exchanges counts the calls of the exchange.
CallbackIdle ==
  [deployed |-> "none", pc |-> "idle", state |-> "none", method |-> "GET",
   code |-> NoCode, next |-> <<>>, exchanges |-> 0, result |-> "none",
   status |-> 0, allow |-> "", location |-> <<>>, setCookie |-> <<>>,
   sent |-> 0]

\* a handler without the test of the method
CallbackStartAnyMethod(c, v, method, code, next) ==
  LET got == [c EXCEPT !.deployed = v, !.method = method, !.code = code,
                       !.next = IF next = <<>> THEN <<"/">> ELSE next]
  IN IF code # NoCode
     THEN [got EXCEPT !.pc = "exchanging", !.state = "AwaitingCode",
                      !.exchanges = c.exchanges + 1]
     ELSE [got EXCEPT !.pc = "done", !.state = "AuthError", !.status = 307,
                      !.location = AuthErrorLocation("Authorization+code+missing")]

\* the handler up to its first await: the method test, the query parameters,
\* and the branch on the code
CallbackStart(c, v, method, code, next) ==
  LET got == [c EXCEPT !.deployed = v, !.method = method, !.code = code,
                       !.next = IF next = <<>> THEN <<"/">> ELSE next]
  IN IF method # "GET"
     THEN [got EXCEPT !.pc = "done", !.status = 405, !.allow = "GET"]
     ELSE IF code # NoCode
     THEN [got EXCEPT !.pc = "exchanging", !.state = "AwaitingCode",
                      !.exchanges = c.exchanges + 1]
     ELSE [got EXCEPT !.pc = "done", !.state = "AuthError", !.status = 307,
                      !.location = AuthErrorLocation("Authorization+code+missing")]

\* a handler that calls the exchange again when it fails
CallbackResumeRetrying(c, result, writes) ==
  LET header == ApplyWrites(c.deployed, c.setCookie, writes)
  IN IF result # "ok" /\ c.exchanges < 2
     THEN [c EXCEPT !.exchanges = c.exchanges + 1, !.setCookie = header]
     ELSE IF result # "ok"
     THEN [c EXCEPT !.pc = "done", !.state = "AuthError", !.result = result,
                    !.status = 307, !.setCookie = header,
                    !.location = AuthErrorLocation("Could+not+authenticate+user")]
     ELSE [c EXCEPT !.pc = "done", !.state = "SessionEstablished",
                    !.result = result, !.status = 307, !.setCookie = header,
                    !.location =
                      siteUrl \o (IF c.next[1] = "/" THEN c.next
                                  ELSE <<"/">> \o c.next)]

\* a handler that redirects to next as it is when next has no leading "/"
CallbackResumeFollowingNext(c, result, writes) ==
  LET header == ApplyWrites(c.deployed, c.setCookie, writes)
  IN IF result # "ok"
     THEN [c EXCEPT !.pc = "done", !.state = "AuthError", !.result = result,
                    !.status = 307, !.setCookie = header,
                    !.location = AuthErrorLocation("Could+not+authenticate+user")]
     ELSE [c EXCEPT !.pc = "done", !.state = "SessionEstablished",
                    !.result = result, !.status = 307, !.setCookie = header,
                    !.location = IF c.next[1] = "/" THEN siteUrl \o c.next
                                 ELSE c.next]

\* a handler that redirects to next whatever the exchange answered
CallbackResumeIgnoringError(c, result, writes) ==
  [c EXCEPT !.pc = "done", !.state = "SessionEstablished", !.result = result,
            !.status = 307,
            !.setCookie = ApplyWrites(c.deployed, c.setCookie, writes),
            !.location = siteUrl \o (IF c.next[1] = "/" THEN c.next
                                     ELSE <<"/">> \o c.next)]

\* the handler after the await: result is what the exchange answered, writes
\* the adapter calls the library made meanwhile
CallbackResume(c, result, writes) ==
  LET header == ApplyWrites(c.deployed, c.setCookie, writes)
      redirectPath == IF c.next[1] = "/" THEN c.next ELSE <<"/">> \o c.next
  IN IF result # "ok"
     THEN [c EXCEPT !.pc = "done", !.state = "AuthError", !.result = result,
                    !.status = 307, !.setCookie = header,
                    !.location = AuthErrorLocation("Could+not+authenticate+user")]
     ELSE [c EXCEPT !.pc = "done", !.state = "SessionEstablished",
                    !.result = result, !.status = 307, !.setCookie = header,
                    !.location = siteUrl \o redirectPath]

\* ------------------------------------------------------ browser client
\* The page of index.tsx that talks to the proxy.  Its state is session,
\* todos (the displayed list), newTask (the input) and error ("" is null).
UserSession == [access_token |-> [kind |-> "good", sub |-> "A"]]
TaskInputs == {"", " ", "buy milk"}

\* String.prototype.trim on the inputs above
trim(s) == IF s = " " THEN "" ELSE s

\* a slot for a handler that awaits its fetch: kind is the handler, id the
\* task a delete names, todos and newTask the values the handler's closure
\* holds, inbound the request as it left the browser
NoCall ==
  [kind |-> "none", id |-> "", todos |-> <<>>, newTask |-> "",
   inbound |-> NoInbound, arrived |-> FALSE, threw |-> FALSE,
   response |-> NoResponse]
CallSlots == {1}

ClientInit ==
  [session |-> NoSession, todos |-> <<>>, newTask |-> "", error |-> "",
   calls |-> [k \in CallSlots |-> NoCall]]

\* the page with room for two handlers that await at the same time
OverlapSlots == {1, 2}
ClientInitOverlapping ==
  [ClientInit EXCEPT !.calls = [k \in OverlapSlots |-> NoCall]]

\* fetch(PROXY_API_URL ...) as each handler issues it
ClientInbound(kind, id, newTask, session) ==
  CASE kind = "load" ->
         [method |-> "GET", slug |-> <<"todos">>, ctype |-> FALSE,
          body |-> EmptyObject, cookieSession |-> session]
    [] kind = "add" ->
         [method |-> "POST", slug |-> <<"todos">>, ctype |-> TRUE,
          body |-> [hasTask |-> TRUE, task |-> newTask, user_id |-> "",
                    is_completed |-> FALSE],
          cookieSession |-> session]
    [] OTHER ->
         [method |-> "DELETE", slug |-> <<"todos", id>>, ctype |-> FALSE,
          body |-> EmptyObject, cookieSession |-> session]

\* a handler starts: setError(null), then the fetch is awaited
StartCall(c, k, kind, id) ==
  [c EXCEPT !.error = "",
            !.calls[k] = [NoCall EXCEPT !.kind = kind, !.id = id,
                            !.todos = c.todos, !.newTask = c.newTask,
                            !.inbound = ClientInbound(kind, id, c.newTask,
                                                      c.session)]]

\* todos.filter((todo) => todo.id !== id)
RECURSIVE FilterOut(_, _)
FilterOut(list, id) ==
  IF list = <<>> THEN <<>>
  ELSE IF Head(list).id = id THEN FilterOut(Tail(list), id)
  ELSE <<Head(list)>> \o FilterOut(Tail(list), id)

\* fetchTodos after its await: call is the slot with the response
fetchTodosResume(c, call) ==
  IF call.threw
  THEN [c EXCEPT !.error = "Failed to load todos via proxy.", !.todos = <<>>]
  ELSE IF ~ResponseOk(call.response)
  THEN IF call.response.status \in {401, 403}
       THEN [c EXCEPT !.error = "Authentication failed fetching todos via proxy. Please log in again.",
                      !.todos = <<>>]
       ELSE [c EXCEPT !.error = "Failed to load todos via proxy.", !.todos = <<>>]
  ELSE IF ResponseJson(call.response).throws
  THEN [c EXCEPT !.error = "Failed to load todos via proxy.", !.todos = <<>>]
  ELSE [c EXCEPT !.todos = ResponseJson(call.response).data.rows]

\* handleAddTask after its await
handleAddTaskResume(c, call) ==
  IF call.threw
  THEN [c EXCEPT !.error = "Failed to add todo via proxy."]
  ELSE IF ~ResponseOk(call.response)
  THEN IF call.response.status \in {401, 403}
       THEN [c EXCEPT !.error = "Authentication failed adding todo via proxy."]
       ELSE [c EXCEPT !.error = "Failed to add todo via proxy."]
  ELSE IF ResponseJson(call.response).throws
  THEN [c EXCEPT !.error = "Failed to add todo via proxy."]
  ELSE [c EXCEPT !.todos = ResponseJson(call.response).data.rows \o call.todos,
                 !.newTask = ""]

\* handleDeleteTodo after its await
handleDeleteTodoResume(c, call) ==
  IF call.threw
  THEN [c EXCEPT !.error = "Failed to delete todo via proxy: Failed to fetch"]
  ELSE IF ~ResponseOk(call.response)
  THEN IF call.response.status \in {401, 403}
       THEN [c EXCEPT !.error = "Authentication failed deleting todo via proxy."]
       ELSE IF call.response.status = 404
       THEN [c EXCEPT !.todos = FilterOut(call.todos, call.id)]
       ELSE [c EXCEPT !.error = "Failed to delete todo via proxy: Proxy HTTP error!"]
  ELSE [c EXCEPT !.todos = FilterOut(call.todos, call.id)]

Resume(c, call) ==
  CASE call.kind = "load" -> fetchTodosResume(c, call)
    [] call.kind = "add" -> handleAddTaskResume(c, call)
    [] OTHER -> handleDeleteTodoResume(c, call)

\* -------------------------------------------------- concurrent requests
\* Two requests handled at once by the proxy route and the backend.  Each
\* occupies a slot that holds what its handlers keep in their own req, res
\* and local variables; a handler gives way to the other request at an await.
Slots == {1, 2}

NoSlot ==
  [pc |-> "idle", inbound |-> NoInbound, session |-> NoSessionResult,
   breq |-> NoBackendRequest, user |-> NoUser, bres |-> NoResponse,
   res |-> NoResponse, expect |-> NoResponse]

\* lastUser is the user of the latest verification in the backend process,
\* which no handler of the code keeps
ConcurrentIdle == [slots |-> [i \in Slots |-> NoSlot], lastUser |-> NoUser]

ConcurrentInbounds ==
  {r \in ProxyInbounds :
     /\ r.cookieSession # NoSession
     /\ r.cookieSession.access_token.kind = "good"
     /\ r.method # "HEAD"
     /\ r.method = "POST" => r.ctype /\ r.body.hasTask /\ r.body.task # ""
                                /\ r.body.user_id = ""
     /\ r.method = "DELETE" => r.slug[2] \in RowIds}

\* a route handler that takes the user from the process instead of its req
HandlerUserOfProcess(c, i) == c.lastUser

\* req.user as the route handler of slot i reads it
HandlerUser(c, i) == c.slots[i].user

\* the verifier deployed, called as middleware
Authenticate(v, req) ==
  IF v = "cookie" THEN authenticateToken(req) ELSE authenticateTokenHeader(req)

\* the route handler that todosRouter picks for req, run for userId
todosRoute(req, userId, table, n, dbError) ==
  LET route == Route(req)
      out == CASE route = "get" -> todosGet(userId, table, dbError)
               [] route = "post" ->
                    todosPost(userId, express_json(req), table, n, dbError)
               [] route = "delete" ->
                    todosDelete(userId, req.path[3], table, dbError)
               [] OTHER -> [res |-> NotFound.res, table |-> table,
                            inserted |-> 0, dbCalls |-> 0]
  IN [out EXCEPT !.res = IF req.method = "HEAD"
                         THEN [status |-> out.res.status, body |-> EmptyBody]
                         ELSE out.res]

\* ------------------------------------------------- the Set-Cookie header
\* res.getHeader("Set-Cookie") before an adapter runs: absent, one string,
\* or an array of strings; value holds the entries
HeaderAbsent == [kind |-> "absent", value |-> <<>>]
EarlierEntries ==
  <<[name |-> "theme", value |-> "dark", Path |-> "/", SameSite |-> "Lax",
     Secure |-> FALSE, MaxAge |-> ""],
    [name |-> "lang", value |-> "en", Path |-> "", SameSite |-> "",
     Secure |-> FALSE, MaxAge |-> "3600"]>>
EarlierHeaders ==
  {HeaderAbsent,
   [kind |-> "string", value |-> SubSeq(EarlierEntries, 1, 1)],
   [kind |-> "array", value |-> <<>>],
   [kind |-> "array", value |-> EarlierEntries]}

\* number of adapter calls within one request
MaxWrites == 2

\* the adapters that write the header: the two of callback.ts and the one of
\* the proxy route, which serializes as the second of callback.ts does
Adapters == CallbackVariants \cup {"proxy"}

AdapterWrites ==
  {[op |-> "set", name |-> "sb-auth-token", options |-> o] : o \in LibraryOptions}
  \cup {[op |-> "remove", name |-> "sb-code-verifier", options |-> o] :
          o \in LibraryOptions}

\* entries an adapter starts from when it finds an array that is not one
HeaderEntriesArrayOnly(h) ==
  IF h.kind = "array" THEN h.value ELSE <<>>

\* let setCookieHeader = res.getHeader("Set-Cookie") || []; a value that is
\* not an array becomes the array of its one string
HeaderEntries(h) ==
  IF h.kind = "absent" THEN <<>>
  ELSE IF h.kind # "array" THEN <<h.value[1]>>
  ELSE h.value

\* one call of an adapter: res.setHeader("Set-Cookie", [...setCookieHeader,
\* serialize(...)])
AdapterCall(adapter, h, w) ==
  [kind |-> "array", value |-> ApplyWrites(adapter, HeaderEntries(h), <<w>>)]

\* a response whose header is h before the adapters run; calls counts the
\* adapter calls made, last is the entry of the latest call
HeaderStart(h) ==
  [header |-> h, before |-> h, previous |-> h, calls |-> 0, last |-> <<>>]

\* ------------------------------------ the verifier that parses the cookie
\* The auth cookie as authenticateToken of the cookie-parsing backend finds
\* it: absent, or a string.  bracketed says the string starts with "[" and
\* ends with "]", json that JSON.parse accepts it; elems are the elements of
\* the array it then yields, token the string itself taken as a credential.
MaxElems == 2

\* an element of the parsed array: a string (ey says it starts with "ey",
\* token what jwt.verify makes of it), a number or null
Elements ==
  {[type |-> "string", ey |-> TRUE, token |-> t] :
     t \in {u \in Tokens : u.kind # "malformed"}}
  \cup {[type |-> "string", ey |-> e, token |-> [kind |-> "malformed", sub |-> "none"]] :
          e \in BOOLEAN}
  \cup {[type |-> "number", ey |-> FALSE, token |-> NoToken],
        [type |-> "null", ey |-> FALSE, token |-> NoToken]}

StringElements == {e \in Elements : e.type = "string"}

RECURSIVE SeqsUpTo(_, _)
SeqsUpTo(S, n) ==
  IF n = 0 THEN {<<>>}
  ELSE LET shorter == SeqsUpTo(S, n - 1)
       IN shorter \cup {Append(q, e) : q \in shorter, e \in S}

NoElement == [type |-> "undefined", ey |-> FALSE, token |-> NoToken]

CookieAbsent ==
  [present |-> FALSE, bracketed |-> FALSE, json |-> FALSE, elems |-> <<>>,
   self |-> NoElement]

CookieValues ==
  {CookieAbsent}
  \cup {[present |-> TRUE, bracketed |-> TRUE, json |-> TRUE, elems |-> q,
         self |-> [type |-> "string", ey |-> FALSE,
                   token |-> [kind |-> "malformed", sub |-> "none"]]] :
          q \in SeqsUpTo(Elements, MaxElems)}
  \cup {[present |-> TRUE, bracketed |-> TRUE, json |-> FALSE, elems |-> <<>>,
         self |-> [type |-> "string", ey |-> FALSE,
                   token |-> [kind |-> "malformed", sub |-> "none"]]]}
  \cup {[present |-> TRUE, bracketed |-> FALSE, json |-> FALSE, elems |-> <<>>,
         self |-> e] : e \in StringElements}

\* parsedArray.find((t) => typeof t === "string" && t.startsWith("ey"))
RECURSIVE FindEy(_)
FindEy(elems) ==
  IF elems = <<>> THEN NoElement
  ELSE IF Head(elems).type = "string" /\ Head(elems).ey THEN Head(elems)
  ELSE FindEy(Tail(elems))

\* an extraction that takes the first element of the array whatever it is
ExtractTokenFirstElement(cookie) ==
  IF ~cookie.present THEN NoElement
  ELSE IF cookie.bracketed
  THEN IF ~cookie.json \/ cookie.elems = <<>> THEN NoElement
       ELSE IF cookie.elems[1].type = "string" THEN cookie.elems[1]
       ELSE NoElement
  ELSE cookie.self

\* actualToken as the try block leaves it (NoElement is null or undefined)
ExtractToken(cookie) ==
  IF ~cookie.present THEN NoElement
  ELSE IF cookie.bracketed
  THEN IF ~cookie.json THEN NoElement
       ELSE LET found == FindEy(cookie.elems) IN
            IF found = NoElement /\ Len(cookie.elems) > 0
               /\ cookie.elems[1].type = "string"
            THEN cookie.elems[1]
            ELSE found
  ELSE cookie.self

\* One run of the verifier: extracted is actualToken, verifyCalls counts the
\* calls of jwt.verify, status is the status sent (0 when next() is called).
VerifierIdle ==
  [pc |-> "idle", cookie |-> CookieAbsent, extracted |-> NoElement,
   verifyCalls |-> 0, status |-> 0, user |-> NoUser]

\* authenticateToken up to the call of jwt.verify
VerifierExtract(cookie) ==
  LET actualToken == ExtractToken(cookie) IN
  IF ~cookie.present \/ actualToken = NoElement
  THEN [VerifierIdle EXCEPT !.pc = "done", !.cookie = cookie, !.status = 401]
  ELSE [VerifierIdle EXCEPT !.pc = "verifying", !.cookie = cookie,
                            !.extracted = actualToken, !.verifyCalls = 1]

\* the callback jwt.verify calls
VerifierCallback(v) ==
  LET r == jwt_verify(v.extracted.token) IN
  IF r.err THEN [v EXCEPT !.pc = "done", !.status = 403]
  ELSE [v EXCEPT !.pc = "done", !.user = r.user]

\* ------------------------------------------------------- responses sent
\* How many responses each handler writes on the path it takes: every
\* res.status(..).json/send/end, res.sendStatus and res.redirect counts one.

\* the proxy handler before its fetch: the configuration test and the
\* session test each return their response
ProxyEarlySends(url, s) ==
  IF ~url.set THEN 1
  ELSE IF s.error \/ s.session = NoSession THEN 1
  ELSE 0

\* the proxy handler after its fetch: the non-OK branch and the 204 branch
\* return their response; a throw of response.json() reaches the catch
\* before anything was sent
ProxyLateSends(response) ==
  IF ~ResponseOk(response) THEN 1
  ELSE IF response.status = 204 THEN 1
  ELSE IF ResponseJson(response).throws THEN 1
  ELSE 1

\* authenticateToken: sendStatus(401) and sendStatus(403) return, otherwise
\* next() hands the request to the router
MiddlewareSends(auth) ==
  IF auth.next THEN 0 ELSE 1

\* a route: the 400 of the create route returns; the try block sends after
\* the database call unless it threw, the catch block sends when it threw;
\* a request no route matches is answered by Express
RouteSends(route, body, dbError) ==
  IF route = "post" /\ (~body.hasTask \/ body.task = "") THEN 1
  ELSE (IF dbError /\ route # "none" THEN 0 ELSE 1)
       + (IF dbError /\ route # "none" THEN 1 ELSE 0)

BackendSends(v, req, dbError) ==
  IF ~UnderTodos(req) THEN 1
  ELSE LET auth == Authenticate(v, req) IN
       MiddlewareSends(auth)
       + (IF auth.next THEN RouteSends(Route(req), express_json(req), dbError)
          ELSE 0)

\* the callback before the exchange: the 405 and the missing-code redirect
CallbackEarlySends(method, code) ==
  IF method # "GET" THEN 1
  ELSE IF code = NoCode THEN 1
  ELSE 0

\* a callback whose catch block does not return before the final redirect
CallbackLateSendsFallingThrough(result) ==
  (IF result # "ok" THEN 1 ELSE 0) + 1

\* the callback after the exchange: the catch block returns its redirect,
\* the success path reaches the final redirect
CallbackLateSends(result) ==
  IF result # "ok" THEN 1 ELSE 1

\* ------------------------------------------------------------------ state
VARIABLES
  todos,      \* the rows of the "todos" table
  nextRow,    \* number of the next row the database creates
  variant,    \* the verifier the backend runs: "cookie" or "header"
  apiUrl,     \* the proxy's RENDER_BACKEND_URL
  rq,         \* the request being handled
  scenario,   \* progress of the create / list / delete / list scenario
  cb,         \* the request the auth callback is handling
  cl,         \* the page: its state and the handlers awaiting a fetch
  cc,         \* two requests in the proxy route and the backend at once
  hd,         \* a response's Set-Cookie header under the cookie adapters
  vf          \* a run of the verifier that parses the auth cookie

todoVars == <<todos, nextRow, variant, apiUrl, rq, scenario>>
\* the variables the todo requests leave alone
restVars == <<cb, cl, cc, hd, vf>>
vars == <<todoVars, restVars>>

\* how a DELETE /:id relates to the table it meets
DeleteCase(table, req, user) ==
  IF Route(req) # "delete" \/ ~UnderTodos(req) THEN "na"
  ELSE IF \E row \in table : row.id = req.path[3] /\ row.user_id = user.sub THEN "own"
  ELSE IF \E row \in table : row.id = req.path[3] THEN "other"
  ELSE "absent"

\* The scenario of one subject, watched at the backend: POST answered 201
\* (phase 1), then GET answered 200 (phase 2), then DELETE of the created id
\* answered 204 (phase 3), then GET answered 200 (phase 4).  Requests of
\* other subjects pass unnoticed; a further create of the same subject starts
\* the scenario again with the new task.  ok records that every answer so far
\* was the one the scenario expects.
NoScenario == [phase |-> 0, sub |-> "none", id |-> "none", ok |-> TRUE]

Observe(sc, req, out) ==
  LET sub == out.user.sub
      status == out.res.status
      rows == out.res.body.rows
      mine == sc.phase \in {1, 2, 3} /\ sub = sc.sub
      free == sc.phase \in {0, 4}
  IN
  CASE out.handler = "post" /\ status = 201 /\ (mine \/ free) ->
         [phase |-> 1, sub |-> sub, id |-> rows[1].id,
          ok |-> sc.ok /\ rows[1].is_completed = FALSE]
    [] out.handler = "get" /\ req.method = "GET" /\ status = 200 /\ mine /\ sc.phase = 1 ->
         [sc EXCEPT !.phase = 2,
                    !.ok = sc.ok /\ Len(rows) > 0 /\ rows[1].id = sc.id]
    [] out.handler = "delete" /\ status = 204 /\ mine /\ sc.phase \in {1, 2}
         /\ req.path[3] = sc.id ->
         [sc EXCEPT !.phase = 3]
    [] out.handler = "get" /\ req.method = "GET" /\ status = 200 /\ mine /\ sc.phase = 3 ->
         [sc EXCEPT !.phase = 4,
                    !.ok = sc.ok /\ \A i \in 1..Len(rows) : rows[i].id # sc.id]
    [] OTHER -> sc

Idle ==
  [pc |-> "idle", via |-> "none", inbound |-> NoInbound,
   session |-> NoSessionResult, breq |-> NoBackendRequest, bres |-> NoResponse,
   res |-> NoResponse, user |-> NoUser, handler |-> "none", dbCalls |-> 0,
   fetches |-> 0, handled |-> FALSE, dbFailed |-> FALSE, delCase |-> "na",
   bodyRead |-> "none", sent |-> 0, bsent |-> 0]

Init ==
  /\ todos = {}
  /\ nextRow = 1
  /\ variant \in {"cookie", "header"}
  /\ apiUrl \in ApiUrls
  /\ rq = Idle
  /\ scenario = NoScenario
  /\ cb = CallbackIdle
  /\ cl = ClientInit
  /\ cc = ConcurrentIdle
  /\ hd = HeaderStart(HeaderAbsent)
  /\ vf = VerifierIdle

\* the backend takes req and answers; out is Backend's result
Served(r, out, dbError) ==
  [r EXCEPT !.bres = out.res, !.user = out.user, !.handler = out.handler,
            !.dbCalls = out.dbCalls, !.handled = TRUE,
            !.dbFailed = (dbError /\ out.dbCalls > 0),
            !.delCase = DeleteCase(todos, r.breq, out.user),
            !.bsent = r.bsent + BackendSends(variant, r.breq, dbError)]

\* a proxy that tests the session but not the session error
ProxyStartIgnoringError(url, inbound, s) ==
  IF ~url.set
  THEN [pc |-> "done", session |-> NoSessionResult, fetches |-> 0,
        breq |-> NoBackendRequest,
        res |-> [status |-> 500, body |-> ErrorBody("Proxy configuration error")]]
  ELSE IF s.session = NoSession /\ ~s.error
  THEN [pc |-> "done", session |-> s, fetches |-> 0, breq |-> NoBackendRequest,
        res |-> [status |-> 401, body |-> ErrorBody("Unauthorized")]]
  ELSE [pc |-> "fetching", session |-> s, fetches |-> 1,
        breq |-> ProxyFetchRequest(url, inbound, s.session),
        res |-> NoResponse]

\* a proxy that resolves the session before it looks at its configuration
ProxyStartSessionFirst(url, inbound, s) ==
  IF s.error \/ s.session = NoSession
  THEN [pc |-> "done", session |-> s, fetches |-> 0, breq |-> NoBackendRequest,
        res |-> [status |-> 401, body |-> ErrorBody("Unauthorized")]]
  ELSE IF ~url.set
  THEN [pc |-> "done", session |-> s, fetches |-> 0, breq |-> NoBackendRequest,
        res |-> [status |-> 500, body |-> ErrorBody("Proxy configuration error")]]
  ELSE [pc |-> "fetching", session |-> s, fetches |-> 1,
        breq |-> ProxyFetchRequest(url, inbound, s.session),
        res |-> NoResponse]

\* the proxy handler from its entry to the await of fetch, or to its early
\* return; s is what getSession resolves if it is called
ProxyStart(url, inbound, s) ==
  IF ~url.set
  THEN [pc |-> "done", session |-> NoSessionResult, fetches |-> 0,
        breq |-> NoBackendRequest,
        res |-> [status |-> 500, body |-> ErrorBody("Proxy configuration error")]]
  ELSE IF s.error \/ s.session = NoSession
  THEN [pc |-> "done", session |-> s, fetches |-> 0, breq |-> NoBackendRequest,
        res |-> [status |-> 401, body |-> ErrorBody("Unauthorized")]]
  ELSE [pc |-> "fetching", session |-> s, fetches |-> 1,
        breq |-> ProxyFetchRequest(url, inbound, s.session),
        res |-> NoResponse]

ProxyHandle ==
  /\ rq.pc = "idle"
  /\ \E inbound \in ProxyInbounds :
       \E s \in getSession(inbound) :
         LET p == ProxyStart(apiUrl, inbound, s) IN
         rq' = [rq EXCEPT !.pc = p.pc, !.via = "proxy", !.inbound = inbound,
                  !.session = p.session, !.fetches = p.fetches,
                  !.breq = p.breq, !.res = p.res,
                  !.sent = ProxyEarlySends(apiUrl, s)]
  /\ UNCHANGED <<todos, nextRow, variant, apiUrl, scenario, restVars>>

\* the backend handles the request the proxy sent
BackendServe ==
  /\ rq.pc = "fetching"
  /\ \E dbError \in BOOLEAN :
       LET out == Backend(variant, rq.breq, todos, nextRow, dbError) IN
       /\ out.inserted = 1 => nextRow <= MaxRows
       /\ todos' = out.table
       /\ nextRow' = nextRow + out.inserted
       /\ rq' = [Served(rq, out, dbError) EXCEPT !.pc = "fetched"]
       /\ scenario' = Observe(scenario, rq.breq, out)
  /\ UNCHANGED <<variant, apiUrl, restVars>>

\* fetch throws: the proxy's catch block answers
FetchThrows ==
  /\ rq.pc = "fetching"
  /\ rq' = [rq EXCEPT !.pc = "done",
              !.res = [status |-> 500, body |-> ErrorBody("Proxy request failed")],
              !.sent = rq.sent + 1]
  /\ UNCHANGED <<todos, nextRow, variant, apiUrl, scenario, restVars>>

\* proxy handler, after the await of fetch
ProxyRespond ==
  /\ rq.pc = "fetched"
  /\ rq' = [rq EXCEPT !.pc = "done", !.res = ProxyPassThrough(rq.bres),
                       !.bodyRead = ProxyBodyRead(rq.bres),
                       !.sent = rq.sent + ProxyLateSends(rq.bres)]
  /\ UNCHANGED <<todos, nextRow, variant, apiUrl, scenario, restVars>>

\* a client calls the backend itself (the direct-call client, or any caller)
DirectCall ==
  /\ rq.pc = "idle"
  /\ \E req \in DirectRequests, dbError \in BOOLEAN :
       LET out == Backend(variant, req, todos, nextRow, dbError)
           r == [rq EXCEPT !.via = "direct", !.breq = req]
       IN
       /\ out.inserted = 1 => nextRow <= MaxRows
       /\ todos' = out.table
       /\ nextRow' = nextRow + out.inserted
       /\ rq' = [Served(r, out, dbError) EXCEPT !.pc = "done", !.res = out.res]
       /\ scenario' = Observe(scenario, req, out)
  /\ UNCHANGED <<variant, apiUrl, restVars>>

\* the response is out; the next request may come
Finish ==
  /\ rq.pc = "done"
  /\ rq' = Idle
  /\ UNCHANGED <<todos, nextRow, variant, apiUrl, scenario, restVars>>

Next ==
  \/ ProxyHandle
  \/ BackendServe
  \/ FetchThrows
  \/ ProxyRespond
  \/ DirectCall
  \/ Finish

Spec == Init /\ [][Next]_vars

\* ------------------------------------------------- the callback's requests
\* a browser requests /api/auth/callback
CallbackHandle ==
  /\ cb.pc = "idle"
  /\ \E v \in CallbackVariants, method \in {"GET", "POST"}, code \in Codes,
        next \in NextParams :
       cb' = [CallbackStart(cb, v, method, code, next) EXCEPT
                !.sent = CallbackEarlySends(method, code)]
  /\ UNCHANGED <<todoVars, cl, cc, hd, vf>>

\* the exchange answers and the handler runs to its redirect
CallbackExchanged ==
  /\ cb.pc = "exchanging"
  /\ \E result \in ExchangeResults :
       \E writes \in LibraryWrites(result) :
         cb' = [CallbackResume(cb, result, writes) EXCEPT
                  !.sent = cb.sent + CallbackLateSends(result)]
  /\ UNCHANGED <<todoVars, cl, cc, hd, vf>>

\* the response is sent; the next request starts afresh
CallbackFinish ==
  /\ cb.pc = "done"
  /\ cb' = CallbackIdle
  /\ UNCHANGED <<todoVars, cl, cc, hd, vf>>

InitCallback ==
  /\ todos = {}
  /\ nextRow = 1
  /\ variant = "header"
  /\ apiUrl = [set |-> TRUE, path |-> <<"api">>]
  /\ rq = Idle
  /\ scenario = NoScenario
  /\ cb = CallbackIdle
  /\ cl = ClientInit
  /\ cc = ConcurrentIdle
  /\ hd = HeaderStart(HeaderAbsent)
  /\ vf = VerifierIdle

NextCallback ==
  \/ CallbackHandle
  \/ CallbackExchanged
  \/ CallbackFinish

SpecCallback == InitCallback /\ [][NextCallback]_vars

\* ------------------------------------------------------- the client's steps
\* a handler that starts takes the first slot that is free
FreeSlots ==
  {k \in DOMAIN cl.calls : cl.calls[k] = NoCall
                      /\ \A j \in DOMAIN cl.calls : j < k => cl.calls[j] # NoCall}

\* onAuthStateChange or getInitialSession delivers a session: setSession, and
\* the effect on [session] calls fetchTodos
SessionArrives ==
  /\ \E k \in FreeSlots :
       cl' = StartCall([cl EXCEPT !.session = UserSession], k, "load", "")
  /\ UNCHANGED <<todoVars, cb, cc, hd, vf>>

\* handleLogout: signOut succeeds (the list is cleared and the session
\* becomes null) or fails (the error is set)
handleLogout ==
  /\ cl.session # NoSession
  /\ \/ cl' = [cl EXCEPT !.error = "", !.todos = <<>>, !.session = NoSession]
     \/ cl' = [cl EXCEPT !.error = "Logout Failed"]
  /\ UNCHANGED <<todoVars, cb, cc, hd, vf>>

\* the user edits the input: setNewTask(e.target.value)
TypeTask ==
  /\ \E text \in TaskInputs : text # cl.newTask /\ cl' = [cl EXCEPT !.newTask = text]
  /\ UNCHANGED <<todoVars, cb, cc, hd, vf>>

\* handleAddTask up to its await
handleAddTask ==
  /\ trim(cl.newTask) # ""
  /\ cl.session # NoSession
  /\ \E k \in FreeSlots : cl' = StartCall(cl, k, "add", "")
  /\ UNCHANGED <<todoVars, cb, cc, hd, vf>>

\* handleDeleteTodo(id) up to its await, for a task on display
handleDeleteTodo ==
  /\ cl.session # NoSession
  /\ \E k \in FreeSlots, i \in 1..Len(cl.todos) :
       cl' = StartCall(cl, k, "delete", cl.todos[i].id)
  /\ UNCHANGED <<todoVars, cb, cc, hd, vf>>

\* the proxy route and the backend answer a request of the client
ProxyAnswer(inbound, s, dbError) ==
  LET p == ProxyStart(apiUrl, inbound, s)
  IN IF p.pc = "done"
     THEN [res |-> p.res, table |-> todos, inserted |-> 0]
     ELSE LET out == Backend(variant, p.breq, todos, nextRow, dbError)
          IN [res |-> ProxyPassThrough(out.res), table |-> out.table,
              inserted |-> out.inserted]

\* a request in flight is answered
ClientAnswered ==
  /\ \E k \in DOMAIN cl.calls, dbError \in BOOLEAN :
     \E s \in getSession(cl.calls[k].inbound) :
       LET call == cl.calls[k]
           a == ProxyAnswer(call.inbound, s, dbError)
       IN
       /\ call.kind # "none" /\ ~call.arrived
       /\ a.inserted = 1 => nextRow <= MaxRows
       /\ todos' = a.table
       /\ nextRow' = nextRow + a.inserted
       /\ cl' = [cl EXCEPT !.calls[k].arrived = TRUE, !.calls[k].response = a.res]
  /\ UNCHANGED <<variant, apiUrl, rq, scenario, cb, cc, hd, vf>>

\* the browser's fetch rejects: no answer reaches the page
ClientFetchFails ==
  /\ \E k \in DOMAIN cl.calls :
       /\ cl.calls[k].kind # "none" /\ ~cl.calls[k].arrived
       /\ cl' = [cl EXCEPT !.calls[k].arrived = TRUE, !.calls[k].threw = TRUE]
  /\ UNCHANGED <<todoVars, cb, cc, hd, vf>>

\* a handler runs from its await to its end
ClientResume ==
  /\ \E k \in DOMAIN cl.calls :
       /\ cl.calls[k].arrived
       /\ cl' = Resume([cl EXCEPT !.calls[k] = NoCall], cl.calls[k])
  /\ UNCHANGED <<todoVars, cb, cc, hd, vf>>

NextClient ==
  \/ SessionArrives
  \/ handleLogout
  \/ TypeTask
  \/ handleAddTask
  \/ handleDeleteTodo
  \/ ClientAnswered
  \/ ClientFetchFails
  \/ ClientResume

\* the page runs against the backend that reads the bearer header, with
\* NEXT_PUBLIC_API_URL set to the backend's origin or to the origin and /api
InitClient ==
  /\ todos = {}
  /\ nextRow = 1
  /\ variant = "header"
  /\ apiUrl \in {u \in ApiUrls : u.set}
  /\ rq = Idle
  /\ scenario = NoScenario
  /\ cb = CallbackIdle
  /\ cl = ClientInit
  /\ cc = ConcurrentIdle
  /\ hd = HeaderStart(HeaderAbsent)
  /\ vf = VerifierIdle

SpecClient == InitClient /\ [][NextClient]_vars

\* Overlapping handlers of the page whose requests all succeed: the list is
\* loaded once when the session arrives, and adds and deletes start while
\* no load is awaited, so the only handlers that overlap are adds and deletes.
LoadAwaited == \E k \in DOMAIN cl.calls : cl.calls[k].kind = "load"

FirstSession == cl.session = NoSession /\ SessionArrives

AddStarts == ~LoadAwaited /\ handleAddTask

DeleteStarts == ~LoadAwaited /\ handleDeleteTodo

ClientSucceeds ==
  /\ ClientAnswered
  /\ \A k \in DOMAIN cl.calls :
       cl'.calls[k].arrived => /\ ResponseOk(cl'.calls[k].response)
                               /\ ~cl'.calls[k].threw

NextOverlap ==
  \/ FirstSession
  \/ TypeTask
  \/ AddStarts
  \/ DeleteStarts
  \/ ClientSucceeds
  \/ ClientResume

InitOverlap ==
  /\ todos = {}
  /\ nextRow = 1
  /\ variant = "header"
  /\ apiUrl \in {u \in ApiUrls : u.set}
  /\ rq = Idle
  /\ scenario = NoScenario
  /\ cb = CallbackIdle
  /\ cl = ClientInitOverlapping
  /\ cc = ConcurrentIdle
  /\ hd = HeaderStart(HeaderAbsent)
  /\ vf = VerifierIdle

SpecOverlap == InitOverlap /\ [][NextOverlap]_vars

\* ------------------------------------------- the steps of two requests
\* the proxy route takes a request and runs to its fetch or its early return
ConcurrentStart ==
  /\ \E i \in Slots, inbound \in ConcurrentInbounds :
     \E s \in getSession(inbound) :
       LET p == ProxyStart(apiUrl, inbound, s) IN
       /\ cc.slots[i].pc = "idle"
       /\ cc' = [cc EXCEPT !.slots[i] =
                   [NoSlot EXCEPT !.pc = p.pc, !.inbound = inbound,
                                  !.session = s, !.breq = p.breq, !.res = p.res,
                                  !.expect = ProxyAnswer(inbound, s, FALSE).res]]
  /\ UNCHANGED <<todoVars, cb, cl, hd, vf>>

\* the backend receives the request: routing to /api/todos and the verifier
ConcurrentVerify ==
  /\ \E i \in Slots :
       LET slot == cc.slots[i]
           auth == Authenticate(variant, slot.breq)
       IN
       /\ slot.pc = "fetching"
       /\ cc' = IF ~UnderTodos(slot.breq)
                THEN [cc EXCEPT !.slots[i].pc = "fetched",
                                !.slots[i].bres = NotFound.res]
                ELSE IF ~auth.next
                THEN [cc EXCEPT !.slots[i].pc = "fetched",
                                !.slots[i].bres =
                                  [status |-> auth.status,
                                   body |-> TextBody(StatusText(auth.status))]]
                ELSE [cc EXCEPT !.slots[i].pc = "verified",
                                !.slots[i].user = auth.user,
                                !.lastUser = auth.user]
  /\ UNCHANGED <<todoVars, cb, cl, hd, vf>>

\* the route handler runs: its database call and its answer
ConcurrentRoute ==
  /\ \E i \in Slots, dbError \in BOOLEAN :
       LET slot == cc.slots[i]
           out == todosRoute(slot.breq, HandlerUser(cc, i).sub, todos, nextRow,
                             dbError)
       IN
       /\ slot.pc = "verified"
       /\ out.inserted = 1 => nextRow <= MaxRows
       /\ todos' = out.table
       /\ nextRow' = nextRow + out.inserted
       /\ cc' = [cc EXCEPT !.slots[i].pc = "fetched", !.slots[i].bres = out.res,
                           !.slots[i].expect =
                             ProxyAnswer(slot.inbound, slot.session, dbError).res]
  /\ UNCHANGED <<variant, apiUrl, rq, scenario, cb, cl, hd, vf>>

\* the proxy route resumes after its fetch
ConcurrentRespond ==
  /\ \E i \in Slots :
       /\ cc.slots[i].pc = "fetched"
       /\ cc' = [cc EXCEPT !.slots[i].pc = "done",
                           !.slots[i].res = ProxyPassThrough(cc.slots[i].bres)]
  /\ UNCHANGED <<todoVars, cb, cl, hd, vf>>

\* the response is out
ConcurrentFinish ==
  /\ \E i \in Slots :
       /\ cc.slots[i].pc = "done"
       /\ cc' = [cc EXCEPT !.slots[i] = NoSlot]
  /\ UNCHANGED <<todoVars, cb, cl, hd, vf>>

NextConcurrent ==
  \/ ConcurrentStart
  \/ ConcurrentVerify
  \/ ConcurrentRoute
  \/ ConcurrentRespond
  \/ ConcurrentFinish

SpecConcurrent == Init /\ [][NextConcurrent]_vars

\* ---------------------------------------------- writes of the Set-Cookie
\* the library calls set or remove of one of the adapters
AdapterWrite ==
  /\ hd.calls < MaxWrites
  /\ \E adapter \in Adapters, w \in AdapterWrites :
       hd' = [hd EXCEPT !.header = AdapterCall(adapter, hd.header, w),
                        !.previous = hd.header,
                        !.calls = hd.calls + 1,
                        !.last = ApplyWrites(adapter, <<>>, <<w>>)]
  /\ UNCHANGED <<todoVars, cb, cl, cc, vf>>

InitSetCookie ==
  /\ todos = {}
  /\ nextRow = 1
  /\ variant = "header"
  /\ apiUrl = [set |-> TRUE, path |-> <<"api">>]
  /\ rq = Idle
  /\ scenario = NoScenario
  /\ cb = CallbackIdle
  /\ cl = ClientInit
  /\ cc = ConcurrentIdle
  /\ hd \in {HeaderStart(h) : h \in EarlierHeaders}
  /\ vf = VerifierIdle

NextSetCookie == AdapterWrite

SpecSetCookie == InitSetCookie /\ [][NextSetCookie]_vars

\* ------------------------------------------ runs of the cookie verifier
VerifierReceive ==
  /\ vf.pc = "idle"
  /\ \E cookie \in CookieValues : vf' = VerifierExtract(cookie)
  /\ UNCHANGED <<todoVars, cb, cl, cc, hd>>

VerifierVerified ==
  /\ vf.pc = "verifying"
  /\ vf' = VerifierCallback(vf)
  /\ UNCHANGED <<todoVars, cb, cl, cc, hd>>

VerifierFinish ==
  /\ vf.pc = "done"
  /\ vf' = VerifierIdle
  /\ UNCHANGED <<todoVars, cb, cl, cc, hd>>

NextVerifier ==
  \/ VerifierReceive
  \/ VerifierVerified
  \/ VerifierFinish

SpecVerifier == Init /\ [][NextVerifier]_vars

\* ------------------------------------- todo requests and callback requests
\* The handlers share no state, so the requests are taken one at a time: a
\* todo request is handled while the callback is at rest and the reverse.
TodoStep == cb.pc = "idle" /\ Next

CallbackStep == rq.pc = "idle" /\ NextCallback

NextOnce ==
  \/ TodoStep
  \/ CallbackStep

SpecOnce == Init /\ [][NextOnce]_vars

\* ----------------------------------------------------------------- claims
\* the credential a backend request presents to the verifier deployed
PresentedToken(req) ==
  IF variant = "cookie" THEN req.cookie
  ELSE IF Len(req.authorization) >= 2 THEN req.authorization[2]
  ELSE NoToken

RowsOf(body) == {body.rows[i] : i \in 1..Len(body.rows)}

\* C1: an authenticated GET on the todo collection returns only rows whose
\* user_id is the sub claim of the credential verified for that request,
\* whatever creates and deletes of any subject came before; the proxy hands
\* the browser the same rows.
C1_TenantIsolationOnRead ==
  /\ (rq.handled /\ rq.handler = "get" /\ rq.bres.status = 200) =>
       /\ PresentedToken(rq.breq).kind = "good"
       /\ \A row \in RowsOf(rq.bres.body) :
            row.user_id = PresentedToken(rq.breq).sub /\ row \in todos
  /\ (rq.pc = "done" /\ rq.handled /\ rq.handler = "get" /\ rq.res.status = 200) =>
       \A row \in RowsOf(rq.res.body) : row.user_id = PresentedToken(rq.breq).sub

\* C1 witness: a GET answered with a row while the table holds a row of
\* another subject
C1_Witness ==
  /\ rq.handled /\ rq.handler = "get" /\ rq.bres.status = 200
  /\ Len(rq.bres.body.rows) > 0
  /\ \E row \in todos : row.user_id # rq.user.sub

\* C2: a DELETE removes only rows whose user_id is the caller's subject and
\* whose id is the one named; the rows of every other subject are the same
\* after it as before.
C2_NoCrossTenantDeletion ==
  [][(~rq.handled /\ rq'.handled /\ rq'.handler = "delete") =>
       LET caller == PresentedToken(rq'.breq).sub IN
       /\ todos' \subseteq todos
       /\ {row \in todos' : row.user_id # caller} = {row \in todos : row.user_id # caller}
       /\ \A row \in todos \ todos' : row.user_id = caller /\ row.id = rq'.breq.path[3]]_vars

\* C2 witness: a DELETE answered 204 that named a row of another subject, the
\* row still in the table
C2_Witness ==
  /\ rq.handled /\ rq.handler = "delete" /\ rq.bres.status = 204
  /\ rq.delCase = "other"
  /\ \E row \in todos : row.id = rq.breq.path[3] /\ row.user_id # rq.user.sub

\* C3: unless the database call fails, the answer to DELETE /{id} is 204 with
\* an empty body whether the id is the caller's own task, the task of another
\* subject or no task at all, at the backend and through the proxy.
C3_DeleteDoesNotLeakOwnership ==
  /\ (rq.handled /\ rq.handler = "delete" /\ ~rq.dbFailed) =>
       /\ rq.delCase \in {"own", "other", "absent"}
       /\ rq.bres = [status |-> 204, body |-> EmptyBody]
  /\ (rq.pc = "done" /\ rq.handled /\ rq.handler = "delete" /\ ~rq.dbFailed) =>
       rq.res = [status |-> 204, body |-> EmptyBody]

\* C3 witness: the proxy has answered a DELETE that named a task of another
\* subject
C3_Witness ==
  /\ rq.pc = "done" /\ rq.via = "proxy" /\ rq.handled /\ rq.handler = "delete"
  /\ rq.delCase = "other" /\ rq.res.status = 204

\* C4: under the todo routes a request without a credential is answered 401,
\* one whose credential fails verification 403, in both cases without a route
\* handler or a database call; a handler runs only for a verified credential,
\* whose claims are the request's user.
C4_BackendCredentialGate ==
  (rq.handled /\ UnderTodos(rq.breq)) =>
    LET token == PresentedToken(rq.breq) IN
    /\ token = NoToken =>
         rq.bres.status = 401 /\ rq.handler = "none" /\ rq.dbCalls = 0
    /\ (token # NoToken /\ token.kind # "good") =>
         rq.bres.status = 403 /\ rq.handler = "none" /\ rq.dbCalls = 0
    /\ rq.handler # "none" =>
         token.kind = "good" /\ rq.user = [sub |-> token.sub]
    /\ rq.dbCalls > 0 => rq.handler # "none"

\* C4 witness: an expired credential was answered 403
C4_Witness ==
  /\ rq.handled /\ UnderTodos(rq.breq)
  /\ PresentedToken(rq.breq).kind = "expired"
  /\ rq.bres.status = 403

\* C5: a proxy request whose session resolution gives an error or no session
\* is answered 401 Unauthorized and no request goes to the backend.
C5_ProxyNeedsSession ==
  (rq.via = "proxy" /\ rq.session.called
     /\ (rq.session.error \/ rq.session.session = NoSession)) =>
    /\ rq.pc = "done"
    /\ rq.res = [status |-> 401, body |-> ErrorBody("Unauthorized")]
    /\ rq.fetches = 0
    /\ ~rq.handled

\* C5 witness: session resolution failed for a request whose cookies hold a
\* session
C5_Witness ==
  /\ rq.via = "proxy" /\ rq.session.error
  /\ rq.inbound.cookieSession # NoSession
  /\ rq.res.status = 401

\* C6: every request the proxy sends to the backend carries Authorization:
\* Bearer <t>, t the access_token of the session resolved from this request's
\* cookies, and no other credential.
C6_BearerAttachment ==
  (rq.via = "proxy" /\ (rq.fetches > 0 \/ rq.handled)) =>
    /\ rq.fetches = 1
    /\ rq.session.called /\ ~rq.session.error
    /\ rq.session.session = rq.inbound.cookieSession
    /\ rq.session.session # NoSession
    /\ rq.breq.authorization = <<BearerWord, rq.inbound.cookieSession.access_token>>
    /\ rq.breq.cookie = NoToken

\* C6 witness: the proxy's request is on its way to the backend
C6_Witness ==
  /\ rq.via = "proxy" /\ rq.pc = "fetching"
  /\ rq.breq.authorization[2].kind = "good"

\* C7: a request the proxy forwards for a valid session, its credential in
\* the Authorization header only, passes the backend's verifier and reaches a
\* todo route handler instead of being answered 401.
C7_BridgeHandshake ==
  (rq.via = "proxy" /\ rq.handled /\ UnderTodos(rq.breq)
     /\ rq.session.session.access_token.kind = "good") =>
    /\ rq.bres.status # 401
    /\ rq.handler # "none"
    /\ rq.user.sub = rq.session.session.access_token.sub

\* the task text of a create request is empty or absent
EmptyTask(req) ==
  ~req.body.present \/ ~req.body.json.hasTask \/ req.body.json.task = ""

\* C8: an authenticated POST whose task text is empty or absent is answered
\* 400 and leaves the table as it was; no insert is issued.
C8_EmptyCreateRejected ==
  [][(~rq.handled /\ rq'.handled /\ rq'.handler = "post" /\ EmptyTask(rq'.breq)) =>
       /\ rq'.bres = [status |-> 400, body |-> ErrorBody("Task cannot be empty")]
       /\ rq'.dbCalls = 0
       /\ todos' = todos
       /\ nextRow' = nextRow]_vars

\* C8 witness: a create with an empty task was answered 400 while the table
\* holds a row and has room for more
C8_Witness ==
  /\ rq.handled /\ rq.handler = "post" /\ EmptyTask(rq.breq)
  /\ rq.breq.body.present /\ rq.breq.body.json.hasTask
  /\ rq.bres.status = 400
  /\ todos # {} /\ nextRow <= MaxRows

C10_VerbatimPassThrough ==
  (rq.via = "proxy" /\ rq.pc = "done" /\ rq.handled /\ rq.bres.status # 204) =>
    rq.res = rq.bres

\* C10: the proxy answers with the backend's status and body when the backend
\* answered 2xx (other than 204) with a JSON body; a non-2xx answer keeps its
\* status but its body is the object {error, details} with the backend's body
\* text as details; a 2xx answer whose body is not JSON (the empty body of a
\* HEAD response) is answered 500 "Proxy request failed".
C10_PassThrough ==
  (rq.via = "proxy" /\ rq.pc = "done" /\ rq.handled /\ rq.bres.status # 204) =>
    IF rq.bres.status < 200 \/ rq.bres.status > 299
    THEN /\ rq.res.status = rq.bres.status
         /\ rq.res.body.shape = "wrapped"
         /\ rq.res.body.details = <<rq.bres.body>>
    ELSE IF rq.bres.body.shape \in {"array", "object", "error", "wrapped"}
    THEN rq.res = rq.bres
    ELSE rq.res = [status |-> 500, body |-> ErrorBody("Proxy request failed")]

\* C10 witness: the proxy has passed on a 403 of the backend
C10_Witness ==
  /\ rq.via = "proxy" /\ rq.pc = "done" /\ rq.handled
  /\ rq.bres.status = 403 /\ rq.res.status = 403

\* the proxy's fetch threw: a request went out and no answer came back
FetchThrew ==
  rq.via = "proxy" /\ rq.pc = "done" /\ rq.fetches = 1 /\ ~rq.handled

\* C11: when the proxy's fetch to the backend throws, the proxy answers the
\* browser 502 with the error "Proxy request failed" and no backend data.
C11_TransportFailureIs502 ==
  FetchThrew =>
    rq.res = [status |-> 502, body |-> ErrorBody("Proxy request failed")]

\* C12: when the backend answers the proxy 204, the proxy answers the browser
\* 204 with an empty body and reads no backend body.
C12_NoContentCarriesNoBody ==
  (rq.via = "proxy" /\ rq.pc = "done" /\ rq.handled /\ rq.bres.status = 204) =>
    /\ rq.res = [status |-> 204, body |-> EmptyBody]
    /\ rq.bodyRead = "none"

\* C12 witness: the proxy has answered a DELETE that removed a row
C12_Witness ==
  /\ rq.via = "proxy" /\ rq.pc = "done" /\ rq.handled
  /\ rq.bres.status = 204 /\ rq.delCase = "own" /\ rq.res.status = 204

\* the rows of a listing run from the newest to the oldest
NewestFirst(rows) ==
  \A i, j \in 1..Len(rows) : i < j => rows[i].created_at >= rows[j].created_at

\* C16: the list a GET on the todo collection returns is ordered by creation
\* time, newest first; the proxy hands the browser the list in that order.
C16_NewestFirstListing ==
  /\ (rq.handled /\ rq.handler = "get" /\ rq.bres.status = 200) =>
       NewestFirst(rq.bres.body.rows)
  /\ (rq.pc = "done" /\ rq.handled /\ rq.handler = "get" /\ rq.res.status = 200) =>
       NewestFirst(rq.res.body.rows)

\* C16 witness: a GET answered with two rows created at different times
C16_Witness ==
  /\ rq.handled /\ rq.handler = "get" /\ rq.bres.status = 200
  /\ Len(rq.bres.body.rows) >= 2
  /\ rq.bres.body.rows[1].created_at > rq.bres.body.rows[2].created_at

\* C17: every row that enters the table is inserted by a POST, carries as
\* user_id the sub claim of the credential verified for that request and
\* is_completed false, whatever user_id or is_completed the body holds; a row
\* never changes afterwards, so its owner stays its creator.
C17_OwnershipOnCreate ==
  [][\A row \in todos' \ todos :
       /\ ~rq.handled /\ rq'.handled /\ rq'.handler = "post"
       /\ PresentedToken(rq'.breq).kind = "good"
       /\ row.user_id = PresentedToken(rq'.breq).sub
       /\ row.is_completed = FALSE
       /\ row.task = rq'.breq.body.json.task
       /\ todos' \ todos = {row}
       /\ \A old \in todos : old.id # row.id]_vars

\* C17 witness: a create whose body names another subject as user_id and
\* is_completed true was answered 201
C17_Witness ==
  /\ rq.handled /\ rq.handler = "post" /\ rq.bres.status = 201
  /\ rq.breq.body.json.user_id # ""
  /\ rq.breq.body.json.user_id # rq.user.sub
  /\ rq.breq.body.json.is_completed
  /\ \E row \in todos : row.id = rq.bres.body.rows[1].id /\ row.user_id = rq.user.sub

\* C19: with NEXT_PUBLIC_API_URL holding the backend's origin, as the client
\* that calls the backend directly uses it, a request to /api/proxy/todos or
\* /api/proxy/todos/{id} is forwarded to /api/todos or /api/todos/{id} of the
\* backend, the path on which the backend serves the todo routes.
C19_ProxyPathMirrorsEndpoints ==
  (rq.via = "proxy" /\ rq.fetches > 0 /\ apiUrl.set /\ apiUrl.path = <<>>) =>
    /\ rq.breq.path = <<"api">> \o rq.inbound.slug
    /\ UnderTodos(rq.breq)

\* the Location of the redirect to the requested 'next' path
NextLocation(c) ==
  siteUrl \o (IF c.next[1] = "/" THEN c.next ELSE <<"/">> \o c.next)

\* C13: a GET to the callback is in AwaitingCode while the exchange runs and
\* ends in exactly one of SessionEstablished and AuthError.  It ends in
\* SessionEstablished, redirecting to the requested next path, only if a code
\* was present and the exchange succeeded; with the code missing or the
\* exchange answering an error or throwing it ends in AuthError, redirecting
\* to the auth-error page with a message and not to the next path.
C13_CallbackTwoOutcomes ==
  /\ cb.pc = "exchanging" => cb.state = "AwaitingCode" /\ cb.code # NoCode
  /\ (cb.pc = "done" /\ cb.method = "GET") =>
       /\ cb.state \in {"SessionEstablished", "AuthError"}
       /\ cb.state = "SessionEstablished" <=>
            (cb.code # NoCode /\ cb.result = "ok")
       /\ cb.state = "SessionEstablished" =>
            cb.status = 307 /\ cb.location = NextLocation(cb)
       /\ cb.state = "AuthError" =>
            /\ cb.status = 307
            /\ cb.location # NextLocation(cb)
            /\ cb.location =
                 AuthErrorLocation(IF cb.code = NoCode
                                   THEN "Authorization+code+missing"
                                   ELSE "Could+not+authenticate+user")

\* C13 witness: the exchange answered an error after the library had written
\* a cookie, and the request named a next path
C13_Witness ==
  /\ cb.pc = "done" /\ cb.method = "GET" /\ cb.code # NoCode
  /\ cb.result = "error" /\ cb.state = "AuthError"
  /\ cb.next = <<"/", "todos">> /\ cb.setCookie # <<>>

\* C14: every Set-Cookie entry the callback writes, through set or remove
\* and whatever options the library passes, has Path=/, SameSite=None and
\* Secure.
C14_ForcedCookieAttributes ==
  \A i \in 1..Len(cb.setCookie) :
    /\ cb.setCookie[i].Path = "/"
    /\ cb.setCookie[i].SameSite = "None"
    /\ cb.setCookie[i].Secure

\* C15: within one request every external call is issued at most once: the
\* callback calls the exchange at most once, the proxy sends at most one
\* request to the backend, a backend route issues at most one database call.
\* After a failed session lookup the proxy sends nothing; after a failed
\* verification the backend calls no database; after a failed fetch, a failed
\* database call or a failed exchange the call is not issued again.
C15_NoRetries ==
  /\ cb.exchanges <= 1
  /\ rq.fetches <= 1
  /\ rq.dbCalls <= 1
  /\ (cb.pc = "done" /\ cb.state = "AuthError") =>
       cb.exchanges = IF cb.code = NoCode THEN 0 ELSE 1
  /\ (rq.via = "proxy" /\ rq.pc = "done" /\ rq.fetches = 0) => rq.dbCalls = 0
  /\ (rq.via = "proxy" /\ (rq.session.error \/ rq.session.session = NoSession)
        /\ rq.session.called) => rq.fetches = 0
  /\ (rq.handled /\ rq.bres.status \in {401, 403}) => rq.dbCalls = 0
  /\ FetchThrew => rq.dbCalls = 0
  /\ rq.dbFailed => rq.dbCalls = 1 /\ rq.bres.status = 500

\* C15 witness: the database failed under a proxied request, which was
\* answered 500 after one fetch and one database call
C15_Witness ==
  /\ rq.via = "proxy" /\ rq.pc = "done" /\ rq.dbFailed
  /\ rq.fetches = 1 /\ rq.dbCalls = 1 /\ rq.res.status = 500

\* the handler of this slot got a non-OK response or a thrown error
FailedCall(call) ==
  call.arrived /\ (call.threw \/ ~ResponseOk(call.response))

\* C18: when loading the list, adding a task or deleting a task fails by a
\* non-OK response or a thrown error, the page sets its error message and
\* leaves the displayed todos, the new-task input and the session as they
\* were.
C18_FailureLeavesStateAlone ==
  [][\A k \in CallSlots :
       (FailedCall(cl.calls[k]) /\ cl'.calls[k] = NoCall) =>
         /\ cl'.error # ""
         /\ cl'.todos = cl.todos
         /\ cl'.newTask = cl.newTask
         /\ cl'.session = cl.session]_vars

FailureMessage(handler) ==
  CASE handler = "get" -> "Failed to fetch todos"
    [] handler = "post" -> "Failed to add todo"
    [] OTHER -> "Failed to delete todo"

\* C21: when the database call of the list, create or delete route reports
\* an error, the backend answers 500 with the route's fixed message (a HEAD
\* answer carries the status alone), never 200, 201 or 204, and the table is
\* as it was.
C21_DatabaseFailureIs500 ==
  [][(~rq.handled /\ rq'.handled /\ rq'.dbFailed) =>
       /\ rq'.handler \in {"get", "post", "delete"}
       /\ rq'.bres.status = 500
       /\ rq'.breq.method # "HEAD" =>
            rq'.bres.body = ErrorBody(FailureMessage(rq'.handler))
       /\ todos' = todos
       /\ nextRow' = nextRow]_vars

\* C21 witness: the database failed under a delete of a row of the caller
C21_Witness ==
  /\ rq.handled /\ rq.dbFailed /\ rq.handler = "delete"
  /\ rq.delCase = "own" /\ rq.bres.status = 500

\* C22: the request the proxy sends to the backend has the method of the
\* inbound request; it carries the JSON text of the inbound parsed body when
\* the method is neither GET nor HEAD, and no body for GET and HEAD.
C22_MethodAndBodyForwarding ==
  (rq.via = "proxy" /\ rq.fetches > 0) =>
    /\ rq.breq.method = rq.inbound.method
    /\ rq.breq.body.present <=> rq.inbound.method \notin {"GET", "HEAD"}
    /\ rq.breq.body.present => rq.breq.body = JSONstringify(rq.inbound.body)
    /\ ~rq.breq.body.present => rq.breq.body = NoBody

\* C22 witness: a proxied POST went out with the task of the inbound body
C22_Witness ==
  /\ rq.via = "proxy" /\ rq.fetches > 0 /\ rq.inbound.method = "POST"
  /\ rq.breq.body.present /\ rq.breq.body.json.task = "buy milk"

\* C29: with the backend base URL not configured, every proxy request is
\* answered 500 "Proxy configuration error" before the session is resolved,
\* and nothing is sent to the backend.
C29_UnconfiguredProxyFailsClosed ==
  (rq.via = "proxy" /\ ~apiUrl.set) =>
    /\ rq.pc = "done"
    /\ rq.res = [status |-> 500, body |-> ErrorBody("Proxy configuration error")]
    /\ ~rq.session.called
    /\ rq.fetches = 0 /\ ~rq.handled /\ rq.breq = NoBackendRequest

\* C29 witness: a request without a session was answered 500 by the
\* unconfigured proxy
C29_Witness ==
  /\ rq.via = "proxy" /\ ~apiUrl.set /\ rq.pc = "done"
  /\ rq.inbound.cookieSession = NoSession /\ rq.res.status = 500

\* C23: a request to the callback with a method other than GET is answered
\* 405 with the header Allow: GET; the exchange is not called, no Set-Cookie
\* entry is written and no redirect is issued.
C23_CallbackAcceptsGetOnly ==
  (cb.pc # "idle" /\ cb.method # "GET") =>
    /\ cb.pc = "done"
    /\ cb.status = 405 /\ cb.allow = "GET"
    /\ cb.exchanges = 0 /\ cb.result = "none"
    /\ cb.setCookie = <<>>
    /\ cb.location = <<>> /\ cb.state = "none"

\* C23 witness: a POST that carries a code was answered 405
C23_Witness ==
  /\ cb.pc = "done" /\ cb.method = "POST" /\ cb.code # NoCode
  /\ cb.status = 405

\* s begins with the pieces of prefix
StartsWith(s, prefix) ==
  Len(s) >= Len(prefix) /\ SubSeq(s, 1, Len(prefix)) = prefix

\* C27: whatever the next parameter holds, the Location of the success
\* redirect is the site URL followed at once by a path that begins with "/",
\* and no redirect of the callback leaves the site URL.
C27_RedirectsStayOnSite ==
  /\ (cb.pc = "done" /\ cb.state = "SessionEstablished") =>
       /\ StartsWith(cb.location, siteUrl)
       /\ Len(cb.location) > Len(siteUrl)
       /\ cb.location[Len(siteUrl) + 1] = "/"
  /\ (cb.pc = "done" /\ cb.status = 307) => StartsWith(cb.location, siteUrl)

\* C27 witness: the exchange succeeded for a request whose next is shaped
\* like an absolute URL
C27_Witness ==
  /\ cb.pc = "done" /\ cb.state = "SessionEstablished"
  /\ cb.next = <<"https://", "evil.example">>

\* C24: each call of a cookie set or remove adapter appends exactly one
\* entry to the Set-Cookie header and keeps the entries written before it, in
\* call order, whether the header was absent, a single string or an array;
\* after n calls the header holds n entries more than before the first.
C24_SetCookieAccumulation ==
  /\ hd.calls > 0 =>
       /\ hd.header.kind = "array"
       /\ Len(hd.last) = 1
       /\ hd.header.value = hd.previous.value \o hd.last
  /\ Len(hd.header.value) = Len(hd.before.value) + hd.calls
  /\ SubSeq(hd.header.value, 1, Len(hd.before.value)) = hd.before.value

\* C24 witness: two calls on a response whose header was a single string
C24_Witness ==
  /\ hd.calls = 2 /\ hd.before.kind = "string"
  /\ Len(hd.header.value) = 3
  /\ hd.header.value[2] # hd.header.value[3]

\* the credential the cookie value stands for: of an array, the first
\* element that is a string starting with "ey", else the first element when
\* it is a string; of any other string, the string; else none
ClaimedCredential(c) ==
  IF ~c.present THEN NoElement
  ELSE IF ~c.bracketed THEN c.self
  ELSE IF ~c.json THEN NoElement
  ELSE LET eys == {i \in 1..Len(c.elems) :
                     c.elems[i].type = "string" /\ c.elems[i].ey}
       IN IF eys # {}
          THEN c.elems[CHOOSE i \in eys : \A j \in eys : i <= j]
          ELSE IF Len(c.elems) > 0 /\ c.elems[1].type = "string"
          THEN c.elems[1]
          ELSE NoElement

\* C30: the cookie-parsing verifier verifies, of a JSON-array cookie, the
\* first element that is a string starting with "ey", else the first element
\* if it is a string, and of any other string the value itself; with the
\* cookie absent, the array malformed or no string element to choose it
\* answers 401 and jwt.verify is not called; 403 is answered only after
\* jwt.verify was called and reported an error.
C30_CookieTokenExtraction ==
  vf.pc # "idle" =>
    LET credential == ClaimedCredential(vf.cookie) IN
    /\ credential = NoElement =>
         vf.pc = "done" /\ vf.status = 401 /\ vf.verifyCalls = 0
    /\ credential # NoElement =>
         /\ vf.verifyCalls = 1
         /\ vf.extracted = credential
         /\ vf.pc = "done" =>
              /\ vf.status = IF credential.token.kind = "good" THEN 0 ELSE 403
              /\ vf.status = 0 => vf.user = [sub |-> credential.token.sub]
    /\ vf.status \in {0, 401, 403}
    /\ vf.status = 403 => vf.verifyCalls = 1 /\ vf.user = NoUser

\* C30 witness: the array's first element is a string without "ey", its
\* second a valid token, and the request was let through as that token's
\* subject
C30_Witness ==
  /\ vf.pc = "done" /\ vf.cookie.bracketed /\ vf.cookie.json
  /\ Len(vf.cookie.elems) = 2
  /\ vf.cookie.elems[1].type = "string" /\ ~vf.cookie.elems[1].ey
  /\ vf.cookie.elems[2].token.kind = "good"
  /\ vf.status = 0 /\ vf.user.sub = vf.cookie.elems[2].token.sub

C26_NoTasksHeldAfterLogout ==
  (cl.session = NoSession /\ \A k \in DOMAIN cl.calls : cl.calls[k] = NoCall)
    => cl.todos = <<>>

\* the ids of the tasks on display, and of the rows GET would return
DisplayedIds == {cl.todos[i].id : i \in 1..Len(cl.todos)}
StoredIds == {r.id : r \in {t \in todos : t.user_id = "A"}}

\* C25: when two client actions (add/add, add/delete, delete/delete) overlap
\* and both succeed, then after both responses are applied the todos list
\* holds every task that was added and none that was deleted: it equals
\* what the server would return from GET.
C25_OverlappingActionsConsistent ==
  (cl.session # NoSession /\ \A k \in DOMAIN cl.calls : cl.calls[k] = NoCall)
    => DisplayedIds = StoredIds

====
